---------------------------- MODULE Spec2Model ----------------------------
(***************************************************************************)
(* Model of matrix-examples/Purchases/purchases.py: a script that loads    *)
(* purchases.csv into a pandas DataFrame and evaluates, one statement      *)
(* after the other, a total sum, three group-by-country sums and three     *)
(* outlier-filtered group-by-country sums.                                 *)
(*                                                                         *)
(* Representation.                                                         *)
(*  - A DataFrame is [columns |-> set of column names, rows |-> sequence   *)
(*    of rows], a row being a function from the column names to cells.     *)
(*  - The numeric cells of the file are integers (read_csv's int64).       *)
(*  - A country cell is a string; the cell NaN stands for a missing value  *)
(*    (read_csv turns an empty field, and the texts "NA", "NaN", "null",   *)
(*    into NaN).                                                           *)
(*  - pandas' median of integers is a float, a multiple of 1/2 or NaN (of  *)
(*    an empty series).  Such a float is the record [nan, x2], x2 being    *)
(*    TWICE its value, so that every comparison stays in the integers:     *)
(*    amount <= m * 10 is 2 * amount <= m.x2 * 10.                         *)
(*  - groupby sorts its keys: CountryOrder lists the country names in      *)
(*    lexicographic order.  Rows of a missing key belong to no group       *)
(*    (groupby's default dropna=True).                                     *)
(*  - groupby(...).apply keeps the grouping column in the frames it hands  *)
(*    to the lambda (pandas 1.x / 2.x, the behaviour the script relies on  *)
(*    at line 43).                                                         *)
(***************************************************************************)
EXTENDS Integers, Sequences, FiniteSets, TLC

VARIABLES
    file,       \* purchases.csv on disk: [present, columns, rows]
    pc,         \* the statement to run next, or "exit"
    exc,        \* "none", or the exception that ended the run
    purchases,  \* the DataFrame bound to the name purchases
    out,        \* the value of every statement evaluated so far
    chain       \* SpecFilter: a frame, followed by the output of each pass
                \* of the outlier filter over the frame before it

vars == <<file, pc, exc, purchases, out, chain>>

---------------------------------------------------------------------------
(* Bounds and input universes                                              *)

MaxRows == 3

MaxPasses == 2

MaxFilterRows == 4

OutlierFactor == 10

HeadRows == 5

NaN == "NaN"

CountryOrder == <<"SE", "US">>

Countries == {CountryOrder[i] : i \in 1..Len(CountryOrder)}

CountryCells == Countries \cup {NaN}

Amounts == {-1, 0, 1, 10, 11}

Discounts == {1}

Columns == {"country", "amount", "discount"}

FullRows == [country : CountryCells, amount : Amounts, discount : Discounts]

FixtureRows == [country : {"US"}, amount : {50, 100}, discount : {5, 10}]

FilterRows == [country : {"US"}, amount : {-1, 1, 20, 300}, discount : {1}]

RECURSIVE SeqsUpTo(_, _)
SeqsUpTo(S, n) ==
    IF n = 0 THEN {<<>>}
    ELSE LET shorter == SeqsUpTo(S, n - 1)
         IN  shorter \cup {Append(s, x) : s \in {t \in shorter : Len(t) = n - 1}, x \in S}

Frame(cols, rows) == [columns |-> cols, rows |-> rows]

Project(row, cols) == [c \in cols |-> row[c]]

ProjectRows(rows, cols) == [i \in 1..Len(rows) |-> Project(rows[i], cols)]

EmptyFrame == Frame({}, <<>>)

AbsentFile == [present |-> FALSE, columns |-> {}, rows |-> <<>>]

\* The files over a row universe: absent, complete, or lacking one column.
Files(universe) ==
    {AbsentFile}
    \cup {[present |-> TRUE, columns |-> cols, rows |-> ProjectRows(rows, cols)] :
            rows \in SeqsUpTo(universe, MaxRows),
            cols \in {Columns} \cup {Columns \ {c} : c \in Columns}}

---------------------------------------------------------------------------
(* pandas primitives                                                       *)

RECURSIVE SumSeq(_)
SumSeq(s) == IF s = <<>> THEN 0 ELSE Head(s) + SumSeq(Tail(s))

RECURSIVE Insert(_, _)
Insert(x, s) ==
    IF s = <<>> THEN <<x>>
    ELSE IF x <= Head(s) THEN <<x>> \o s
    ELSE <<Head(s)>> \o Insert(x, Tail(s))

RECURSIVE SortValues(_)
SortValues(s) == IF s = <<>> THEN <<>> ELSE Insert(Head(s), SortValues(Tail(s)))

Float(twice) == [nan |-> FALSE, x2 |-> twice]

NaNFloat == [nan |-> TRUE, x2 |-> 0]

\* Series.median(): the middle value, or the mean of the two middle values.
Median(s) ==
    LET n == Len(s)
        t == SortValues(s)
    IN  IF n = 0 THEN NaNFloat
        ELSE IF n % 2 = 1 THEN Float(2 * t[(n + 1) \div 2])
        ELSE Float(t[n \div 2] + t[n \div 2 + 1])

\* Mutant: the factor is applied to the amount instead of the median.
WithinFactorWrongSide(amount, m) == ~m.nan /\ 2 * amount * OutlierFactor <= m.x2

\* Mutant: < for <=.
WithinFactorStrict(amount, m) == ~m.nan /\ 2 * amount < m.x2 * OutlierFactor

\* amount <= m * 10, m a float; a comparison with NaN is False.
WithinFactor(amount, m) == ~m.nan /\ 2 * amount <= m.x2 * OutlierFactor

Column(frame, c) == [i \in 1..Len(frame.rows) |-> frame.rows[i][c]]

\* The group keys of groupby("country"), sorted; missing keys are dropped.
GroupKeys(frame) ==
    LET present(c) == \E i \in 1..Len(frame.rows) : frame.rows[i]["country"] = c
    IN  SelectSeq(CountryOrder, present)

Group(frame, c) ==
    LET inGroup(r) == r["country"] = c
    IN  Frame(frame.columns, SelectSeq(frame.rows, inGroup))

RECURSIVE ConcatRows(_)
ConcatRows(frames) ==
    IF frames = <<>> THEN <<>> ELSE Head(frames).rows \o ConcatRows(Tail(frames))

---------------------------------------------------------------------------
(* Outcomes of a statement: it raises exc, or returns value[1].            *)

Raise(e) == [exc |-> e, value |-> <<>>]

Return(v) == [exc |-> "none", value |-> <<v>>]

Has(frame, cols) == cols \subseteq frame.columns

---------------------------------------------------------------------------
(* Line 3: purchases = pd.read_csv("purchases.csv")                        *)

ReadCsv(f) ==
    IF ~f.present THEN {Raise("FileNotFoundError")}
    ELSE {Return(Frame(f.columns, f.rows))}

(* Line 4: purchases.head()                                                *)

HeadOf(frame) ==
    {Return(Frame(frame.columns,
                  SubSeq(frame.rows, 1, IF Len(frame.rows) < HeadRows
                                        THEN Len(frame.rows) ELSE HeadRows)))}

(* Line 7: purchases["amount"].sum()                                       *)

TotalSum(frame) ==
    IF ~Has(frame, {"amount"}) THEN {Raise("KeyError")}
    ELSE {Return(SumSeq(Column(frame, "amount")))}

(* Lines 10-13: groupby("country")["amount"].sum(), a Series indexed by    *)
(* country.                                                                *)

GroupSum(frame) ==
    IF ~Has(frame, {"country"}) THEN {Raise("KeyError")}
    ELSE IF ~Has(frame, {"amount"}) THEN {Raise("KeyError")}
    ELSE LET keys == GroupKeys(frame)
         IN  {Return([c \in {keys[i] : i \in 1..Len(keys)} |->
                         SumSeq(Column(Group(frame, c), "amount"))])}

(* Lines 15-19: groupby("country").agg(total=("amount", "sum"))            *)
(* .reset_index(), a frame of the columns country and total.               *)

GroupAgg(frame) ==
    IF ~Has(frame, {"country"}) THEN {Raise("KeyError")}
    ELSE IF ~Has(frame, {"amount"}) THEN {Raise("KeyError")}
    ELSE LET keys == GroupKeys(frame)
         IN  {Return(Frame({"country", "total"},
                 [i \in 1..Len(keys) |->
                     [country |-> keys[i],
                      total |-> SumSeq(Column(Group(frame, keys[i]), "amount"))]]))}

\* Mutant: the discount is added instead of deducted.
NetSumAddsDiscount(frame) ==
    SumSeq([i \in 1..Len(frame.rows) |->
               frame.rows[i]["amount"] + frame.rows[i]["discount"]])

(* lambda df: (df["amount"] - df["discount"]).sum()                        *)

NetSum(frame) ==
    SumSeq([i \in 1..Len(frame.rows) |->
               frame.rows[i]["amount"] - frame.rows[i]["discount"]])

(* .groupby("country").apply(<NetSum>).reset_index()                       *)
(* .rename(columns={0: "total"}): the tail of lines 22-27, 30-36, 39-47    *)
(* and 50-59.  Of a frame without groups, apply returns an empty frame     *)
(* that has the frame's own columns and the index country, and reset_index *)
(* then raises ValueError (cannot insert country, already exists) in       *)
(* pandas 1.x / 2.x; both that and an empty result are outcomes here.      *)

NetByCountry(frame) ==
    IF ~Has(frame, {"country"}) THEN {Raise("KeyError")}
    ELSE IF ~Has(frame, {"amount", "discount"}) THEN {Raise("KeyError")}
    ELSE LET keys == GroupKeys(frame)
         IN  IF keys = <<>>
             THEN {Raise("ValueError"), Return(Frame({"country", "total"}, <<>>))}
             ELSE {Return(Frame({"country", "total"},
                     [i \in 1..Len(keys) |->
                         [country |-> keys[i],
                          total |-> NetSum(Group(frame, keys[i]))]]))}

(* Line 31: .query("amount <= amount.median() * 10")                       *)

QueryOutlier(frame) ==
    LET m == Median(Column(frame, "amount"))
        keep(r) == WithinFactor(r["amount"], m)
    IN  Frame(frame.columns, SelectSeq(frame.rows, keep))

\* Mutant: the query of line 31 is left out.
OutlierNetUnfiltered(frame) ==
    IF ~Has(frame, {"amount"}) THEN {Raise("UndefinedVariableError")}
    ELSE NetByCountry(frame)

(* Lines 30-36                                                             *)

OutlierNet(frame) ==
    IF ~Has(frame, {"amount"}) THEN {Raise("UndefinedVariableError")}
    ELSE NetByCountry(QueryOutlier(frame))

(* Lines 40-42: .groupby("country")                                        *)
(* .apply(lambda df: df[df["amount"] <= df["amount"].median() * 10])       *)
(* .reset_index(drop=True): the filtered groups, concatenated in key order *)

\* Mutant: the median is taken over the whole frame, not over the group.
FilterGroupsWholeFrame(frame) ==
    LET keys == GroupKeys(frame)
        m == Median(Column(frame, "amount"))
        keep(r) == WithinFactor(r["amount"], m)
        filtered(c) == Frame(frame.columns, SelectSeq(Group(frame, c).rows, keep))
    IN  Frame(frame.columns, ConcatRows([i \in 1..Len(keys) |-> filtered(keys[i])]))

FilterGroups(frame) ==
    LET keys == GroupKeys(frame)
        filtered(c) == QueryOutlier(Group(frame, c))
    IN  Frame(frame.columns, ConcatRows([i \in 1..Len(keys) |-> filtered(keys[i])]))

(* Lines 39-47                                                             *)

\* Mutant: one apply that filters and sums inside the lambda, so that every
\* group of the input is reported.
NestedNetOneApply(frame) ==
    IF ~Has(frame, Columns) THEN {Raise("KeyError")}
    ELSE LET keys == GroupKeys(frame)
         IN  IF keys = <<>> THEN NetByCountry(frame)
             ELSE {Return(Frame({"country", "total"},
                     [i \in 1..Len(keys) |->
                         [country |-> keys[i],
                          total |-> NetSum(QueryOutlier(Group(frame, keys[i])))]]))}

NestedNet(frame) ==
    IF ~Has(frame, {"country"}) THEN {Raise("KeyError")}
    ELSE IF ~Has(frame, {"amount"}) THEN {Raise("KeyError")}
    ELSE NetByCountry(FilterGroups(frame))

(* Lines 51-53: .assign(country_median=lambda df:                          *)
(* df.groupby("country")["amount"].transform("median")): a new frame with  *)
(* the column country_median; a row of a missing key gets NaN.             *)

\* Mutant: the transform without the groupby.
TransformMedianWholeFrame(frame, i) == Median(Column(frame, "amount"))

TransformMedian(frame, i) ==
    IF frame.rows[i]["country"] = NaN THEN NaNFloat
    ELSE Median(Column(Group(frame, frame.rows[i]["country"]), "amount"))

AssignCountryMedian(frame) ==
    LET cols == frame.columns \cup {"country_median"}
    IN  Frame(cols,
              [i \in 1..Len(frame.rows) |->
                  [c \in cols |-> IF c = "country_median"
                                  THEN TransformMedian(frame, i)
                                  ELSE frame.rows[i][c]]])

(* Line 54: .query("amount <= country_median * 10")                        *)

QueryCountryMedian(frame) ==
    LET keep(r) == WithinFactor(r["amount"], r["country_median"])
    IN  Frame(frame.columns, SelectSeq(frame.rows, keep))

(* Lines 50-59                                                             *)

AssignNet(frame) ==
    IF ~Has(frame, {"country"}) THEN {Raise("KeyError")}
    ELSE IF ~Has(frame, {"amount"}) THEN {Raise("KeyError")}
    ELSE NetByCountry(QueryCountryMedian(AssignCountryMedian(frame)))

---------------------------------------------------------------------------
(* The script: its statements in source order                              *)

Stmts == <<"load", "head", "total", "bycountry", "agg", "net", "outlier",
           "nested", "assign">>

Index(stmt) == CHOOSE i \in 1..Len(Stmts) : Stmts[i] = stmt

NextStmt(stmt) == IF Index(stmt) = Len(Stmts) THEN "exit" ELSE Stmts[Index(stmt) + 1]

\* Mutant: the exception is swallowed and the script goes on.
EvaluateSwallow(stmt, outcomes) ==
    /\ pc = stmt
    /\ exc = "none"
    /\ \E o \in outcomes :
          IF o.exc # "none"
          THEN pc' = NextStmt(stmt) /\ UNCHANGED <<exc, out>>
          ELSE out' = (stmt :> o.value[1]) @@ out /\ pc' = NextStmt(stmt) /\ UNCHANGED exc
    /\ UNCHANGED <<file, chain>>

\* An expression statement: an uncaught exception ends the run at the
\* statement, otherwise its value is displayed and the next statement runs.
Evaluate(stmt, outcomes) ==
    /\ pc = stmt
    /\ exc = "none"
    /\ \E o \in outcomes :
          IF o.exc # "none"
          THEN exc' = o.exc /\ UNCHANGED <<pc, out>>
          ELSE out' = (stmt :> o.value[1]) @@ out /\ pc' = NextStmt(stmt) /\ UNCHANGED exc
    /\ UNCHANGED <<file, chain>>

Load ==
    /\ pc = "load"
    /\ exc = "none"
    /\ \E o \in ReadCsv(file) :
          IF o.exc # "none"
          THEN exc' = o.exc /\ UNCHANGED <<pc, purchases>>
          ELSE purchases' = o.value[1] /\ pc' = NextStmt("load") /\ UNCHANGED exc
    /\ UNCHANGED <<file, out, chain>>

ShowHead == Evaluate("head", HeadOf(purchases)) /\ UNCHANGED purchases

SumAmount == Evaluate("total", TotalSum(purchases)) /\ UNCHANGED purchases

SumByCountry == Evaluate("bycountry", GroupSum(purchases)) /\ UNCHANGED purchases

AggByCountry == Evaluate("agg", GroupAgg(purchases)) /\ UNCHANGED purchases

NetOfDiscount == Evaluate("net", NetByCountry(purchases)) /\ UNCHANGED purchases

RemoveOutliers == Evaluate("outlier", OutlierNet(purchases)) /\ UNCHANGED purchases

MedianWithinCountry == Evaluate("nested", NestedNet(purchases)) /\ UNCHANGED purchases

\* Mutant: the column country_median is added to purchases itself.
MedianByAssignInPlace ==
    /\ Evaluate("assign", AssignNet(purchases))
    /\ purchases' = IF Has(purchases, {"country", "amount"})
                    THEN AssignCountryMedian(purchases) ELSE purchases

MedianByAssign == Evaluate("assign", AssignNet(purchases)) /\ UNCHANGED purchases

\* The outcomes of a statement of lines 4-59 over a frame.
Denotes(stmt, frame) ==
    CASE stmt = "head" -> HeadOf(frame)
      [] stmt = "total" -> TotalSum(frame)
      [] stmt = "bycountry" -> GroupSum(frame)
      [] stmt = "agg" -> GroupAgg(frame)
      [] stmt = "net" -> NetByCountry(frame)
      [] stmt = "outlier" -> OutlierNet(frame)
      [] stmt = "nested" -> NestedNet(frame)
      [] stmt = "assign" -> AssignNet(frame)

\* The columns a statement's source text names.
Requires(stmt) ==
    CASE stmt \in {"load", "head"} -> {}
      [] stmt = "total" -> {"amount"}
      [] stmt \in {"bycountry", "agg"} -> {"country", "amount"}
      [] stmt \in {"net", "outlier", "nested", "assign"} -> {"country", "amount", "discount"}

InitWith(universe) ==
    /\ file \in Files(universe)
    /\ pc = "load"
    /\ exc = "none"
    /\ purchases = EmptyFrame
    /\ out = <<>>
    /\ chain = <<>>

Init == InitWith(FullRows)

Next ==
    \/ Load
    \/ ShowHead
    \/ SumAmount
    \/ SumByCountry
    \/ AggByCountry
    \/ NetOfDiscount
    \/ RemoveOutliers
    \/ MedianWithinCountry
    \/ MedianByAssign

Spec == Init /\ [][Next]_vars

\* The same script over the rows of the two-row fixture.
InitFixture == InitWith(FixtureRows)

SpecFixture == InitFixture /\ [][Next]_vars

\* The outlier filter of line 31 applied again to its own output.
InitFilter ==
    /\ file = AbsentFile
    /\ pc = "load"
    /\ exc = "none"
    /\ purchases = EmptyFrame
    /\ out = <<>>
    /\ chain \in {<<Frame(Columns, rows)>> : rows \in SeqsUpTo(FilterRows, MaxFilterRows)}

FilterPass ==
    /\ Len(chain) <= MaxPasses
    /\ chain' = Append(chain, QueryOutlier(chain[Len(chain)]))
    /\ UNCHANGED <<file, pc, exc, purchases, out>>

NextFilter == FilterPass

SpecFilter == InitFilter /\ [][NextFilter]_vars

---------------------------------------------------------------------------
(* Vocabulary of the properties.  The rows of purchases are named by their *)
(* positions; the median is characterised by ranks, not by sorting.        *)

Evaluated(stmt) == stmt \in DOMAIN out

Rows == 1..Len(purchases.rows)

RowsOf(c) == {i \in Rows : purchases.rows[i]["country"] = c}

AmountAt(i) == purchases.rows[i]["amount"]

NetAt(i) == purchases.rows[i]["amount"] - purchases.rows[i]["discount"]

\* The k-th smallest of the values a[i], i in I.
Kth(a, I, k) ==
    CHOOSE v \in {a[i] : i \in I} :
        /\ Cardinality({i \in I : a[i] < v}) < k
        /\ k <= Cardinality({i \in I : a[i] <= v})

\* Twice the median of the values a[i], i in I (I not empty).
TwiceMedianOf(a, I) ==
    LET n == Cardinality(I)
    IN  IF n % 2 = 1 THEN 2 * Kth(a, I, (n + 1) \div 2)
        ELSE Kth(a, I, n \div 2) + Kth(a, I, n \div 2 + 1)

\* Twice the median of the amounts of the rows I of purchases.
TwiceMedian(I) == TwiceMedianOf(Column(purchases, "amount"), I)

\* Row i has amount <= 10 * (median of the amounts of the rows I).
Passes(i, I) == 2 * AmountAt(i) <= 10 * TwiceMedian(I)

Passing(c) == {i \in RowsOf(c) : Passes(i, RowsOf(c))}

RECURSIVE SumAmounts(_)
SumAmounts(I) ==
    IF I = {} THEN 0
    ELSE LET i == CHOOSE j \in I : TRUE IN AmountAt(i) + SumAmounts(I \ {i})

RECURSIVE SumNet(_)
SumNet(I) ==
    IF I = {} THEN 0
    ELSE LET i == CHOOSE j \in I : TRUE IN NetAt(i) + SumNet(I \ {i})

\* The countries a result frame lists, and the total it reports for one.
Listed(result) == {result.rows[i]["country"] : i \in 1..Len(result.rows)}

TotalsOf(result, c) ==
    {result.rows[i]["total"] : i \in {j \in 1..Len(result.rows) : result.rows[j]["country"] = c}}

AllColumns == pc # "load" /\ Has(purchases, Columns)

NonNegative == \A i \in Rows : AmountAt(i) >= 0

SomeRowRemoved == \E c \in Countries : Passing(c) # RowsOf(c)

---------------------------------------------------------------------------
\* C1: for every purchases table the nested-apply query (lines 39-47) and
\* the assign-then-query query (lines 50-59) have the same outcome: the same
\* countries with the same total each.
NestedEqualsAssign ==
    /\ AllColumns => NestedNet(purchases) = AssignNet(purchases)
    /\ (Evaluated("nested") /\ Evaluated("assign")) => out["nested"] = out["assign"]

\* Both queries ran on a table of two countries and the filter removed a row.
NestedEqualsAssignWitness ==
    /\ Evaluated("nested") /\ Evaluated("assign")
    /\ Cardinality(Listed(out["assign"])) = 2
    /\ SomeRowRemoved

\* C4: the total the per-country outlier query reports for a country c is
\* the sum of amount - discount over exactly the rows of c whose amount is
\* <= 10 times the median amount of the rows of c; it reports no total for
\* c when there is no such row.
PerCountryTotals ==
    Evaluated("nested") =>
        \A c \in Countries :
            TotalsOf(out["nested"], c) =
                IF Passing(c) = {} THEN {} ELSE {SumNet(Passing(c))}

\* A country keeps some rows and loses others, and one of its rows is judged
\* differently by the median of the whole table.
PerCountryTotalsWitness ==
    /\ Evaluated("nested")
    /\ \E c \in Countries :
          /\ Passing(c) # {}
          /\ Passing(c) # RowsOf(c)
          /\ \E i \in RowsOf(c) : Passes(i, RowsOf(c)) # Passes(i, Rows)

\* C8: in both per-country outlier queries a country is listed if and only
\* if one of its rows passes amount <= 10 * (the country's median amount);
\* a country that loses all its rows is not listed.
ListedIffSomeRowPasses ==
    \A q \in {"nested", "assign"} :
        Evaluated(q) =>
            \A c \in Countries : (c \in Listed(out[q])) <=> (Passing(c) # {})

\* A country of the table lost all its rows and is listed by neither query,
\* while another country is listed.
ListedIffSomeRowPassesWitness ==
    /\ Evaluated("nested") /\ Evaluated("assign")
    /\ Listed(out["assign"]) # {}
    /\ \E c \in Countries :
          /\ RowsOf(c) # {}
          /\ Passing(c) = {}
          /\ c \notin Listed(out["nested"])
          /\ c \notin Listed(out["assign"])

---------------------------------------------------------------------------
RECURSIVE SumSeries(_, _)
SumSeries(series, keys) ==
    IF keys = {} THEN 0
    ELSE LET c == CHOOSE k \in keys : TRUE IN series[c] + SumSeries(series, keys \ {c})

CountryValues == {purchases.rows[i]["country"] : i \in Rows}

\* C2: the group-by-country sum partitions the rows by their country value:
\* every row belongs to a group, the groups are the distinct country values
\* of the table, each group's sum is the sum over its rows, and the sums add
\* up to the total sum of amount.
GroupSumPartitions ==
    (Evaluated("total") /\ Evaluated("bycountry")) =>
        /\ \A i \in Rows : purchases.rows[i]["country"] \in DOMAIN out["bycountry"]
        /\ DOMAIN out["bycountry"] = CountryValues
        /\ \A c \in DOMAIN out["bycountry"] : out["bycountry"][c] = SumAmounts(RowsOf(c))
        /\ SumSeries(out["bycountry"], DOMAIN out["bycountry"]) = out["total"]

NoneExceeds(frame) ==
    LET a == Column(frame, "amount")
        I == 1..Len(frame.rows)
    IN  \A i \in I : 2 * a[i] <= 10 * TwiceMedianOf(a, I)

\* C3: when no row of the first pass's output exceeds 10 times the median of
\* that output, a second pass of the filter of line 31 removes no row.
FilterIdempotent ==
    (Len(chain) >= 3 /\ NoneExceeds(chain[2])) => chain[3] = chain[2]

\* The first pass removed a row, kept another, and the second pass ran.
FilterIdempotentWitness ==
    /\ Len(chain) >= 3
    /\ Len(chain[2].rows) < Len(chain[1].rows)
    /\ chain[2].rows # <<>>
    /\ NoneExceeds(chain[2])

FixtureFrame ==
    Frame(Columns, <<[country |-> "US", amount |-> 100, discount |-> 10],
                     [country |-> "US", amount |-> 50, discount |-> 5]>>)

IsFixture == pc # "load" /\ purchases.columns = Columns /\ purchases.rows = FixtureFrame.rows

\* C5: for the table {(US, 100, 10), (US, 50, 5)} the total sum is 150 and
\* the net-of-discount query returns the single group US with total 135.
FixtureTotals ==
    IsFixture =>
        /\ Evaluated("total") => out["total"] = 150
        /\ Evaluated("net") =>
              out["net"] = Frame({"country", "total"}, <<[country |-> "US", total |-> 135]>>)

FixtureTotalsWitness == IsFixture /\ Evaluated("total") /\ Evaluated("net")

\* C6: purchases is never mutated: after any statement it has the rows and
\* the columns read from the file, and the value of every statement is the
\* value of that statement over the table as loaded.
PurchasesNeverMutated ==
    pc # "load" =>
        /\ purchases = Frame(file.columns, file.rows)
        /\ \A stmt \in DOMAIN out :
              Return(out[stmt]) \in Denotes(stmt, Frame(file.columns, file.rows))

\* Every query ran, the assign variant included, and a filter dropped a row.
PurchasesNeverMutatedWitness ==
    /\ pc = "exit"
    /\ SomeRowRemoved
    /\ Listed(out["assign"]) # {}

Position == IF pc = "exit" THEN Len(Stmts) + 1 ELSE Index(pc)

CanRun(stmt) == file.present /\ Requires(stmt) \subseteq file.columns

\* C7: the statements run in source order and no error is caught: a
\* statement that cannot complete (absent file, missing column) is never
\* passed, the run stops at the statement that fails, every statement before
\* it has its value and no statement after it is evaluated.
RunStopsAtFailure ==
    /\ DOMAIN out = {Stmts[i] : i \in 2..(Position - 1)}
    /\ \A i \in 1..(Position - 1) : CanRun(Stmts[i])
    /\ exc # "none" =>
          /\ pc # "exit"
          /\ ~CanRun(pc) \/ exc = "ValueError"
          /\ ~ENABLED Next
    /\ (pc # "exit" /\ ~CanRun(pc)) => (exc # "none" \/ ENABLED Next)

\* The discount column is missing: three queries completed, the fourth
\* failed and the run stopped there.
RunStopsAtFailureWitness ==
    /\ exc = "KeyError"
    /\ pc = "net"
    /\ purchases.rows # <<>>
    /\ DOMAIN out = {"head", "total", "bycountry", "agg"}

\* C9: when no amount is negative, both per-country outlier queries list
\* exactly the countries of the table, and the global-median filter keeps a
\* row of any non-empty table.
NonNegativeKeepsCountries ==
    /\ \A q \in {"nested", "assign"} :
          (Evaluated(q) /\ NonNegative) => Listed(out[q]) = CountryValues \ {NaN}
    /\ (pc # "load" /\ Has(purchases, {"amount"}) /\ Rows # {} /\ NonNegative) =>
          QueryOutlier(purchases).rows # <<>>

\* No amount is negative, a row holds the amount 0, a row was removed and the
\* country of the table is listed.
NonNegativeKeepsCountriesWitness ==
    /\ Evaluated("nested") /\ Evaluated("assign")
    /\ NonNegative
    /\ \E i \in Rows : AmountAt(i) = 0
    /\ SomeRowRemoved
    /\ Listed(out["assign"]) # {}

SingleCountry == \A i, j \in Rows : purchases.rows[i]["country"] = purchases.rows[j]["country"]

===========================================================================
